---- MODULE Spec2Model ----
(***************************************************************************)
(* Model of src/main.py: Teacher and TimetableManager (add_teacher,        *)
(* assign_teacher, _create_time_slots, generate_timetable).                *)
(*                                                                         *)
(* Representation of Python values:                                        *)
(*  - slot labels, day names, subject names and teacher names are strings; *)
(*    the empty string is "";                                              *)
(*  - composed strings (class names, cell texts) are sequences of tokens:  *)
(*    f"Grade {i} {section}" is <<"Grade", str(i), section>>, the empty    *)
(*    string "" is <<>>, f"{subject} ({teacher})" is                       *)
(*    <<subject, "(", teacher, ")">>;                                      *)
(*  - a dict is a function, a list is a sequence;                          *)
(*  - a pandas DataFrame is a record [index, columns, at].                 *)
(***************************************************************************)
EXTENDS Integers, Sequences, FiniteSets, TLC

VARIABLES
    teachers,                \* self.teachers: name -> Teacher
    teacher_keys,            \* insertion order of the keys of self.teachers
    subject_grade_teachers,  \* self.subject_grade_teachers: <<subject, grade>> -> list of names
    timetable_cache,         \* self.timetable_cache: class name -> DataFrame
    teacher_timetable,       \* self.teacher_timetable: teacher name -> DataFrame
    pc,                      \* position inside generate_timetable ("idle" between calls)
    params,                  \* the params dict of the current / last generate_timetable call
    time_slots,              \* local time_slots
    days,                    \* local days
    classes,                 \* local classes
    k,                       \* index in classes of the class being processed
    timetable,               \* local timetable: time -> day -> cell text
    available_slots,         \* local available_slots: day -> list of slots
    activity_slots,          \* the part of the random sample still to be placed
    export_i,                \* index in teacher_keys of the teacher being exported
    generated_files,         \* local generated_files
    result,                  \* what the last call returned
    lastCall,                \* the last handler that returned
    ioFault,                 \* a to_csv of the current / last run raised
    calls                    \* number of handler calls so far

vars == <<teachers, teacher_keys, subject_grade_teachers, timetable_cache,
          teacher_timetable, pc, params, time_slots, days, classes, k, timetable,
          available_slots, activity_slots, export_i, generated_files, result,
          lastCall, ioFault, calls>>

registry == <<teachers, teacher_keys, subject_grade_teachers>>
caches == <<timetable_cache, teacher_timetable>>
locals == <<time_slots, days, classes, k, timetable, available_slots,
            activity_slots, export_i, generated_files>>

----------------------------------------------------------------------------
(* Bounds of the model. *)

\* number of handler calls (add_teacher, generate_timetable) in a behaviour
MaxCalls == 3
\* the weekdays of WEEKDAYS that the runs use
WeekdaysUsed == {"Monday"}
\* number of grades the runs loop over (range(1, 13) in the source)
NumGrades == 1
\* the number of sections kept by the truncation ([:4] in the source)
SectionLimit == 2
\* the core subjects that random.choice(core_subjects) draws
DrawnSubjects == {"English", "Hindi"}

----------------------------------------------------------------------------
(* Generic helpers. *)

Range(s) == {s[i] : i \in DOMAIN s}

Min(a, b) == IF a < b THEN a ELSE b

EmptyDict == [x \in {} |-> <<>>]

\* list.remove(x): drops the first occurrence of x
RECURSIVE Remove(_, _)
Remove(s, x) ==
    IF s = <<>> THEN <<>>
    ELSE IF Head(s) = x THEN Tail(s)
    ELSE <<Head(s)>> \o Remove(Tail(s), x)

\* s[:n]
Take(s, n) == SubSeq(s, 1, Min(n, Len(s)))

\* the sequences without repetition of exactly n elements of S
RECURSIVE Arrangements(_, _)
Arrangements(S, n) ==
    IF n = 0 THEN {<<>>}
    ELSE UNION {{<<x>> \o r : r \in Arrangements(S \ {x}, n - 1)} : x \in S}

----------------------------------------------------------------------------
(* Class constants of TimetableManager. *)

InWeekdaysUsed(day) == day \in WeekdaysUsed
WEEKDAYS ==
    SelectSeq(<<"Monday", "Tuesday", "Wednesday", "Thursday", "Friday">>, InWeekdaysUsed)

SATURDAY_OPTIONS == <<"Holiday", "Half Day", "Full Day">>

AVAILABLE_SLOTS ==
    <<"7:00-7:50 AM", "8:00-8:50 AM", "9:00-9:50 AM", "10:00-10:50 AM",
      "11:00-11:50 AM", "12:00-12:50 PM", "1:00-1:50 PM", "2:00-2:50 PM",
      "3:00-3:50 PM", "4:00-4:50 PM">>

ACTIVITY_SUBJECTS == <<"Sports", "Drawing/Craft", "Drama", "Music", "Instrument", "Dance">>

GRADES == <<"1-5", "6-8", "9-10", "11-12 Science", "11-12 Commerce", "11-12 Arts">>

\* str(i) for the grades
Str == [i \in 1..12 |->
          <<"1", "2", "3", "4", "5", "6", "7", "8", "9", "10", "11", "12">>[i]]

GRADE_MAPPING ==
    [g \in {Str[i] : i \in 1..12} |->
        IF g \in {Str[i] : i \in 1..5} THEN "1-5"
        ELSE IF g \in {Str[i] : i \in 6..8} THEN "6-8"
        ELSE IF g \in {Str[i] : i \in 9..10} THEN "9-10"
        ELSE "11-12 Science"]

NCERT_SUBJECTS ==
    [g \in Range(GRADES) |->
        CASE g = "1-5" -> <<"English", "Hindi", "Mathematics", "EVS", "Art", "Physical Education">>
          [] g = "6-8" -> <<"English", "Hindi", "Mathematics", "Science", "Social Science",
                            "Sanskrit", "Computer Basics">>
          [] g = "9-10" -> <<"English", "Hindi", "Mathematics", "Science", "Social Science",
                             "IT", "Commerce Basics">>
          [] g = "11-12 Science" -> <<"Physics", "Chemistry", "Biology/Math", "Computer Science">>
          [] g = "11-12 Commerce" -> <<"Accountancy", "Business Studies", "Economics">>
          [] g = "11-12 Arts" -> <<"History", "Political Science", "Sociology">>]

\* the default band for every grade
get_grade_key_default(grade) == "11-12 Science"

\* TimetableManager.get_grade_key
get_grade_key(grade) ==
    IF grade \in DOMAIN GRADE_MAPPING THEN GRADE_MAPPING[grade] ELSE "11-12 Science"

----------------------------------------------------------------------------
(* Time labels: parse_time and format_hour. *)

\* the text f"{h}:00-{h}:50 {period}"
FString ==
    [x \in (1..12) \X {"AM", "PM"} |->
        IF x[2] = "AM"
        THEN <<"1:00-1:50 AM", "2:00-2:50 AM", "3:00-3:50 AM", "4:00-4:50 AM",
               "5:00-5:50 AM", "6:00-6:50 AM", "7:00-7:50 AM", "8:00-8:50 AM",
               "9:00-9:50 AM", "10:00-10:50 AM", "11:00-11:50 AM", "12:00-12:50 AM">>[x[1]]
        ELSE <<"1:00-1:50 PM", "2:00-2:50 PM", "3:00-3:50 PM", "4:00-4:50 PM",
               "5:00-5:50 PM", "6:00-6:50 PM", "7:00-7:50 PM", "8:00-8:50 PM",
               "9:00-9:50 PM", "10:00-10:50 PM", "11:00-11:50 PM", "12:00-12:50 PM">>[x[1]]]

\* int(time_str.split(":")[0]) and the AM / PM suffix of a label
LeadingHour(time_str) == CHOOSE h \in 1..12 : \E q \in {"AM", "PM"} : FString[<<h, q>>] = time_str
Contains(time_str, q) == \E h \in 1..12 : FString[<<h, q>>] = time_str

parse_time(time_str) ==
    LET hour == LeadingHour(time_str)
    IN  IF Contains(time_str, "PM") /\ hour # 12 THEN hour + 12
        ELSE IF Contains(time_str, "AM") /\ hour = 12 THEN 0
        ELSE hour

format_hour(h) ==
    IF h = 0 \/ h = 24 THEN "12:00-12:50 AM"
    ELSE IF h = 12 THEN "12:00-12:50 PM"
    ELSE LET period == IF h < 12 THEN "AM" ELSE "PM"
             hh == IF h <= 12 THEN h ELSE h - 12
         IN  FString[<<hh, period>>]

\* the slots of every hour from start to end, without the cut to count
create_time_slots_untruncated(start_hour, end_hour, count) ==
    [i \in 1..(end_hour - start_hour + 1) |-> format_hour(start_hour + i - 1)]

\* TimetableManager._create_time_slots
create_time_slots(start_hour, end_hour, count) ==
    Take([i \in 1..(end_hour - start_hour + 1) |-> format_hour(start_hour + i - 1)], count)

----------------------------------------------------------------------------
(* Teacher. *)

\* a schedule that is built once and kept by the later runs
initialize_schedule_once(t, ds, ts) ==
    IF t.schedule = EmptyDict
    THEN [t EXCEPT !.schedule = [day \in Range(ds) |-> [slot \in Range(ts) |-> <<>>]]]
    ELSE t

\* Teacher.initialize_schedule
initialize_schedule(t, ds, ts) ==
    [t EXCEPT !.schedule = [day \in Range(ds) |-> [slot \in Range(ts) |-> <<>>]]]

\* is_available without the look at the schedule
is_available_always(t, day, time_slot) == TRUE

\* Teacher.is_available: not self.schedule.get(day, {}).get(time_slot)
is_available(t, day, time_slot) ==
    IF day \in DOMAIN t.schedule /\ time_slot \in DOMAIN t.schedule[day]
    THEN t.schedule[day][time_slot] = <<>>
    ELSE TRUE

\* assign that leaves the schedule as it is
assign_skipped(t, day, time_slot, class_name) == t

\* Teacher.assign
assign(t, day, time_slot, class_name) ==
    IF day \in DOMAIN t.schedule /\ time_slot \in DOMAIN t.schedule[day]
    THEN [t EXCEPT !.schedule[day][time_slot] = class_name]
    ELSE t

----------------------------------------------------------------------------
(* add_teacher.  subjects_text is a sequence of tokens: a word, "," or " ". *)

RECURSIVE Split(_)
\* str.split(",")
Split(text) ==
    IF \A i \in DOMAIN text : text[i] # "," THEN <<text>>
    ELSE LET i == CHOOSE j \in DOMAIN text :
                      text[j] = "," /\ \A m \in 1..(j - 1) : text[m] # ","
         IN  <<SubSeq(text, 1, i - 1)>> \o Split(SubSeq(text, i + 1, Len(text)))

RECURSIVE Strip(_)
\* str.strip()
Strip(piece) ==
    IF piece = <<>> THEN <<>>
    ELSE IF Head(piece) = " " THEN Strip(Tail(piece))
    ELSE IF piece[Len(piece)] = " " THEN Strip(SubSeq(piece, 1, Len(piece) - 1))
    ELSE piece

\* {s.strip() for s in subjects_text.split(",") if s.strip()}; the subjects of
\* the texts of SubjectTexts are single words
ParseSubjects(text) ==
    LET pieces == Split(text)
    IN  {Strip(pieces[i])[1] : i \in {j \in DOMAIN pieces : Strip(pieces[j]) # <<>>}}

\* the guard of add_teacher: not name or not subjects_text or not grades
add_teacher_rejects(name, subjects_text, grades) ==
    name = "" \/ subjects_text = <<>> \/ grades = <<>>

\* the index after the nested loop of add_teacher
IndexAfterAdd(index, name, subjects, grades_set) ==
    LET new == subjects \X grades_set
    IN  [key \in DOMAIN index \cup new |->
            IF key \in new
            THEN Append(IF key \in DOMAIN index THEN index[key] ELSE <<>>, name)
            ELSE index[key]]

Teacher(name, subjects, grades_set) ==
    [name |-> name, subjects |-> subjects, grades |-> grades_set, schedule |-> EmptyDict]

\* self.teachers[name] = ...: a dict keeps the position of an existing key
PutTeacher(ts, name, t) ==
    [n \in DOMAIN ts \cup {name} |-> IF n = name THEN t ELSE ts[n]]

----------------------------------------------------------------------------
(* pandas.DataFrame.from_dict(data, orient='index', columns=columns) for a  *)
(* dict of dicts: the nested dict is transposed (outer keys become the row *)
(* labels, inner keys the column labels), then DataFrame(transposed,       *)
(* columns=columns) keeps the columns named in `columns`; a name that is   *)
(* no key of the transposed dict gives a column of NaN, and the rows are   *)
(* the union of the row labels of the columns that were found.             *)

NaN == <<"NaN">>

from_dict(data, columns) ==
    LET inner == UNION {DOMAIN data[o] : o \in DOMAIN data}
        col(c) == [o \in {x \in DOMAIN data : c \in DOMAIN data[x]} |-> data[o][c]]
        found == {c \in Range(columns) : c \in inner}
        index == UNION {DOMAIN col(c) : c \in found}
    IN  [index |-> index,
         columns |-> columns,
         at |-> [x \in index \X Range(columns) |->
                    IF x[2] \in found /\ x[1] \in DOMAIN col(x[2])
                    THEN col(x[2])[x[1]]
                    ELSE NaN]]

----------------------------------------------------------------------------
(* Texts. *)

Lunch == <<"Lunch Break">>
Free == <<"Free">>
Label(subject, teacher) == <<subject, "(", teacher, ")">>
ClassName(i, section) == <<"Grade", Str[i], section>>

RejectedMsg == "All fields are required!"
AddedMsg == "Teacher added successfully!"
EndBeforeStartMsg == "End time must be after start time"
NotEnoughHoursMsg == "Not enough hours for periods"
ExpectedClassesMsg == "Expected classes, adjust sections"
CompleteMsg == "Generation Complete"
ErrorMsg == "Error"

----------------------------------------------------------------------------
(* Inputs. *)

Names == {"", "T1", "T2"}

SubjectTexts == {<<>>, <<" ", ",", " ">>, <<"English", ",", " ", "Sports">>}

GradeChoices == {<<>>, <<"1-5">>}

Params(sections, act, count, start, end, periods, lunch, sat) ==
    [selected_sections |-> sections, activity_subjects |-> act, activity_count |-> count,
     start_time |-> start, end_time |-> end, periods_per_day |-> periods,
     lunch_time |-> lunch, saturday_option |-> sat]

ParamChoices ==
    { Params(<<"A", "B">>, <<>>, 1, "11:00-11:50 AM", "11:00-11:50 AM", 1, "12:00-12:50 PM", "Holiday"),
      Params(<<"A", "B">>, <<>>, 1, "12:00-12:50 PM", "11:00-11:50 AM", 1, "12:00-12:50 PM", "Full Day"),
      Params(<<"A", "B">>, <<>>, 1, "11:00-11:50 AM", "1:00-1:50 PM", 3, "12:00-12:50 PM", "Full Day"),
      Params(<<"A">>, <<"Sports">>, 1, "11:00-11:50 AM", "1:00-1:50 PM", 2, "12:00-12:50 PM", "Half Day"),
      Params(<<"A", "B">>, <<>>, 1, "11:00-11:50 AM", "1:00-1:50 PM", 2, "12:00-12:50 PM", "Half Day"),
      Params(<<"A", "B">>, <<"Sports">>, 2, "11:00-11:50 AM", "1:00-1:50 PM", 2, "4:00-4:50 PM", "Half Day"),
      Params(<<"A", "B", "C">>, <<>>, 1, "11:00-11:50 AM", "1:00-1:50 PM", 1, "4:00-4:50 PM", "Holiday"),
      Params(<<"A", "A">>, <<>>, 1, "11:00-11:50 AM", "1:00-1:50 PM", 1, "4:00-4:50 PM", "Holiday"),
      Params(<<"C", "B">>, <<"Sports">>, 2, "12:00-12:50 PM", "1:00-1:50 PM", 1, "12:00-12:50 PM", "Half Day"),
      Params(<<"B", "A">>, <<"Sports">>, 2, "11:00-11:50 AM", "1:00-1:50 PM", 1, "4:00-4:50 PM", "Half Day"),
      Params(<<"A", "B">>, <<>>, 1, "11:00-11:50 AM", "1:00-1:50 PM", 1, "4:00-4:50 PM", "Full Day") }

----------------------------------------------------------------------------
(* generate_timetable: the pure parts. *)

\* 12 grades x 4 sections = 48 in the source
ExpectedClasses == NumGrades * SectionLimit

\* if end_hour <= start_hour
EndBeforeStart(p) == parse_time(p.end_time) <= parse_time(p.start_time)

\* the comparison of the span with the period count, off by one
NotEnoughHours_inclusive(p) ==
    parse_time(p.end_time) - parse_time(p.start_time) <= p.periods_per_day

\* if end_hour - start_hour < int(params['periods_per_day'])
NotEnoughHours(p) ==
    parse_time(p.end_time) - parse_time(p.start_time) < p.periods_per_day

RunSlots(p) ==
    create_time_slots(parse_time(p.start_time), parse_time(p.end_time), p.periods_per_day)

\* the days with Saturday in every mode
RunDays_always_saturday(p) == WEEKDAYS \o <<"Saturday">>

\* self.WEEKDAYS + (["Saturday"] if saturday_included else [])
RunDays(p) ==
    WEEKDAYS \o (IF p.saturday_option # "Holiday" THEN <<"Saturday">> ELSE <<>>)

\* the selection without the truncation
SelectedSections_untruncated(p) == p.selected_sections

\* params['selected_sections'][:4]
SelectedSections(p) == Take(p.selected_sections, SectionLimit)

\* [f"Grade {i} {section}" for i in range(1, 13) for section in selected_sections]
RunClasses(p) ==
    LET sel == SelectedSections(p)
        m == Len(sel)
    IN  [j \in 1..(NumGrades * m) |-> ClassName(((j - 1) \div m) + 1, sel[((j - 1) % m) + 1])]

\* the class count checked from above only
WrongClassCount_above(cs) == Len(cs) > ExpectedClasses

\* if len(classes) != 48
WrongClassCount(cs) == Len(cs) # ExpectedClasses

\* a cache that is not cleared
Cleared_kept(cache) == cache

\* self.timetable_cache.clear(), self.teacher_timetable.clear()
Cleared(cache) == EmptyDict

\* {time: {day: "" for day in days} for time in time_slots}
EmptyTimetable(ds, ts) == [time \in Range(ts) |-> [day \in Range(ds) |-> <<>>]]

\* Saturday with the full slot list in every mode
SaturdaySlots_full(p, ts) == ts

\* time_slots[:len(time_slots) // 2] if params['saturday_option'] == "Half Day" else time_slots
SaturdaySlots(p, ts) ==
    IF p.saturday_option = "Half Day" THEN Take(ts, Len(ts) \div 2) ELSE ts

\* {day: list(time_slots if day != "Saturday" else saturday_slots) for day in days}
InitialPool(p, ds, ts) ==
    [day \in Range(ds) |-> IF day # "Saturday" THEN ts ELSE SaturdaySlots(p, ts)]

\* the timetable after the lunch block
LunchTimetable(p, ds, ts, tt) ==
    IF p.lunch_time \in Range(ts)
    THEN [tt EXCEPT ![p.lunch_time] = [day \in Range(ds) |-> Lunch]]
    ELSE tt

\* the lunch block without the removal from the pools
LunchPool_kept(p, ds, ts, pool) == pool

\* available_slots after the lunch block
LunchPool(p, ds, ts, pool) ==
    IF p.lunch_time \in Range(ts)
    THEN [day \in Range(ds) |-> Remove(pool[day], p.lunch_time)]
    ELSE pool

\* [(day, time) for day in days for time in available_slots[day]]
AllSlots(ds, pool) == UNION {{<<d, t>> : t \in Range(pool[d])} : d \in Range(ds)}

\* a sample of at most one pair
ActivitySamples_single(p, ds, ts, pool) ==
    IF p.activity_subjects # <<>> /\ p.activity_count > 0
    THEN Arrangements(AllSlots(ds, pool), Min(1, Cardinality(AllSlots(ds, pool))))
    ELSE {<<>>}

\* the outcomes of random.sample(all_slots, min(activity_count, len(all_slots)))
ActivitySamples(p, ds, ts, pool) ==
    LET activity_count == Min(p.activity_count, Len(ds) * Len(ts))
        all_slots == AllSlots(ds, pool)
    IN  IF p.activity_subjects # <<>> /\ activity_count > 0
        THEN Arrangements(all_slots, Min(activity_count, Cardinality(all_slots)))
        ELSE {<<>>}

\* the list random.choice(core_subjects) draws from
InDrawnSubjects(subject) == subject \in DrawnSubjects
CoreSubjects(grade_key) == SelectSeq(NCERT_SUBJECTS[grade_key], InDrawnSubjects)

\* TimetableManager.get_available_teachers
get_available_teachers(ts, index, subject, grade_key, day, time_slot) ==
    LET listed == IF <<subject, grade_key>> \in DOMAIN index
                  THEN index[<<subject, grade_key>>] ELSE <<>>
        free(name) == is_available(ts[name], day, time_slot)
    IN  SelectSeq(listed, free)

\* assign_teacher that may return "TBD" although a teacher is available
AssignChoices_or_placeholder(ts, index, subject, grade_key, day, time_slot) ==
    {[teacher |-> "TBD", booked |-> FALSE]}
        \cup {[teacher |-> t, booked |-> TRUE] :
                 t \in Range(get_available_teachers(ts, index, subject, grade_key, day, time_slot))}

\* the teachers assign_teacher may return: "TBD" without a booking, or one
\* of the available teachers, who is booked
AssignChoices(ts, index, subject, grade_key, day, time_slot) ==
    LET available_teachers == get_available_teachers(ts, index, subject, grade_key, day, time_slot)
    IN  IF available_teachers = <<>>
        THEN {[teacher |-> "TBD", booked |-> FALSE]}
        ELSE {[teacher |-> t, booked |-> TRUE] : t \in Range(available_teachers)}

\* self.teachers after assign_teacher made the choice c
TeachersAfterAssign(ts, c, day, time_slot, class_name) ==
    IF c.booked
    THEN [ts EXCEPT ![c.teacher] = assign(ts[c.teacher], day, time_slot, class_name)]
    ELSE ts

\* one entry of teacher_schedules: t.schedule[day][slot] or "Free"
TeacherSchedule(t, ds, ts) ==
    [day \in Range(ds) |->
        [slot \in Range(ts) |->
            IF t.schedule[day][slot] # <<>> THEN t.schedule[day][slot] ELSE Free]]

----------------------------------------------------------------------------
(* The state machine. *)

NoParams == Params(<<>>, <<>>, 0, "", "", 0, "", "")
NoResult == [status |-> "", files |-> <<>>]

Init ==
    /\ teachers = EmptyDict
    /\ teacher_keys = <<>>
    /\ subject_grade_teachers = EmptyDict
    /\ timetable_cache = EmptyDict
    /\ teacher_timetable = EmptyDict
    /\ pc = "idle"
    /\ params = NoParams
    /\ time_slots = <<>>
    /\ days = <<>>
    /\ classes = <<>>
    /\ k = 0
    /\ timetable = EmptyDict
    /\ available_slots = EmptyDict
    /\ activity_slots = <<>>
    /\ export_i = 0
    /\ generated_files = <<>>
    /\ result = NoResult
    /\ lastCall = "none"
    /\ ioFault = FALSE
    /\ calls = 0

\* TimetableManager.add_teacher
AddTeacher(name, subjects_text, grades) ==
    /\ pc = "idle"
    /\ calls < MaxCalls
    /\ calls' = calls + 1
    /\ lastCall' = "add_teacher"
    /\ IF add_teacher_rejects(name, subjects_text, grades)
       THEN /\ result' = [status |-> RejectedMsg, files |-> <<>>]
            /\ UNCHANGED registry
       ELSE LET subjects == ParseSubjects(subjects_text)
                grades_set == Range(grades)
            IN  /\ teachers' = PutTeacher(teachers, name, Teacher(name, subjects, grades_set))
                /\ teacher_keys' = IF name \in DOMAIN teachers THEN teacher_keys
                                   ELSE Append(teacher_keys, name)
                /\ subject_grade_teachers' =
                       IndexAfterAdd(subject_grade_teachers, name, subjects, grades_set)
                /\ result' = [status |-> AddedMsg, files |-> <<>>]
    /\ UNCHANGED <<caches, pc, params, locals, ioFault>>

\* a return of generate_timetable
Return(status, files) ==
    /\ pc' = "idle"
    /\ lastCall' = "generate_timetable"
    /\ result' = [status |-> status, files |-> files]

\* generate_timetable, lines 139-169: validation, slots and days, the reset of
\* the schedules, the class list, the clearing of the caches
GenStart(p) ==
    /\ pc = "idle"
    /\ calls < MaxCalls
    /\ calls' = calls + 1
    /\ params' = p
    /\ ioFault' = FALSE
    /\ UNCHANGED <<teacher_keys, subject_grade_teachers>>
    /\ k' = 1
    /\ export_i' = 0
    /\ timetable' = EmptyDict
    /\ available_slots' = EmptyDict
    /\ activity_slots' = <<>>
    /\ generated_files' = <<>>
    /\ IF EndBeforeStart(p)
       THEN /\ Return(EndBeforeStartMsg, <<>>)
            /\ time_slots' = <<>> /\ days' = <<>> /\ classes' = <<>>
            /\ UNCHANGED <<teachers, caches>>
       ELSE IF NotEnoughHours(p)
       THEN /\ Return(NotEnoughHoursMsg, <<>>)
            /\ time_slots' = <<>> /\ days' = <<>> /\ classes' = <<>>
            /\ UNCHANGED <<teachers, caches>>
       ELSE /\ time_slots' = RunSlots(p)
            /\ days' = RunDays(p)
            /\ teachers' = [n \in DOMAIN teachers |->
                               initialize_schedule(teachers[n], RunDays(p), RunSlots(p))]
            /\ classes' = RunClasses(p)
            /\ IF WrongClassCount(RunClasses(p))
               THEN /\ Return(ExpectedClassesMsg, <<>>)
                    /\ UNCHANGED caches
               ELSE /\ timetable_cache' = Cleared(timetable_cache)
                    /\ teacher_timetable' = Cleared(teacher_timetable)
                    /\ pc' = "setup"
                    /\ UNCHANGED <<result, lastCall>>

class_name == classes[k]
grade_key == get_grade_key(class_name[2])

\* lines 172-190: the empty grid, the pools, the lunch block, the activity sample
Setup ==
    /\ pc = "setup"
    /\ LET pool == LunchPool(params, days, time_slots, InitialPool(params, days, time_slots))
       IN  /\ timetable' = LunchTimetable(params, days, time_slots,
                                          EmptyTimetable(days, time_slots))
           /\ available_slots' = pool
           /\ \E sample \in ActivitySamples(params, days, time_slots, pool) :
                  activity_slots' = sample
    /\ pc' = "fill"
    /\ UNCHANGED <<registry, caches, params, time_slots, days, classes, k, export_i,
                   generated_files, result, lastCall, ioFault, calls>>

\* lines 193-195 and 202-204: one cell is given a subject and a teacher
Place(subject, c, day, time) ==
    /\ teachers' = TeachersAfterAssign(teachers, c, day, time, class_name)
    /\ timetable' = [timetable EXCEPT ![time][day] = Label(subject, c.teacher)]
    /\ available_slots' = [available_slots EXCEPT ![day] = Remove(@, time)]

\* lines 191-195: one pair of the activity sample
ActivityStep ==
    /\ pc = "fill"
    /\ activity_slots # <<>>
    /\ LET day == Head(activity_slots)[1]
           time == Head(activity_slots)[2]
       IN  \E activity \in Range(params.activity_subjects) :
             \E c \in AssignChoices(teachers, subject_grade_teachers, activity, grade_key,
                                    day, time) :
                Place(activity, c, day, time)
    /\ activity_slots' = Tail(activity_slots)
    /\ UNCHANGED <<teacher_keys, subject_grade_teachers, caches, pc, params, time_slots,
                   days, classes, k, export_i, generated_files, result, lastCall, ioFault,
                   calls>>

\* the days whose pool is not empty yet
OpenDays == {i \in DOMAIN days : available_slots[days[i]] # <<>>}

\* lines 198-204: the next slot of the core-subject fill
CoreStep ==
    /\ pc = "fill"
    /\ activity_slots = <<>>
    /\ OpenDays # {}
    /\ LET i == CHOOSE j \in OpenDays : \A m \in OpenDays : j <= m
           day == days[i]
           time == Head(available_slots[day])
       IN  \E subject \in Range(CoreSubjects(grade_key)) :
             \E c \in AssignChoices(teachers, subject_grade_teachers, subject, grade_key,
                                    day, time) :
                Place(subject, c, day, time)
    /\ UNCHANGED <<teacher_keys, subject_grade_teachers, caches, pc, params, time_slots,
                   days, classes, k, activity_slots, export_i, generated_files, result,
                   lastCall, ioFault, calls>>

\* the except clause: return f"Error: {str(e)}", []
Raise ==
    /\ Return(ErrorMsg, <<>>)
    /\ ioFault' = TRUE

\* lines 206-210: the class grid is written and cached; to_csv may raise
StoreClass ==
    /\ pc = "fill"
    /\ activity_slots = <<>>
    /\ OpenDays = {}
    /\ \E ok \in BOOLEAN :
          IF ok
          THEN /\ timetable_cache' =
                      [c \in DOMAIN timetable_cache \cup {class_name} |->
                          IF c = class_name THEN from_dict(timetable, days)
                          ELSE timetable_cache[c]]
               /\ generated_files' = Append(generated_files, class_name)
               /\ IF k < Len(classes)
                  THEN k' = k + 1 /\ pc' = "setup" /\ UNCHANGED export_i
                  ELSE pc' = "export" /\ export_i' = 1 /\ UNCHANGED k
               /\ UNCHANGED <<result, lastCall, ioFault>>
          ELSE /\ Raise
               /\ UNCHANGED <<timetable_cache, generated_files, k, export_i>>
    /\ UNCHANGED <<registry, teacher_timetable, params, time_slots, days, classes,
                   timetable, available_slots, activity_slots, calls>>

\* lines 212-221: one teacher's grid is written and cached; to_csv may raise
ExportTeacher ==
    /\ pc = "export"
    /\ export_i <= Len(teacher_keys)
    /\ LET teacher == teacher_keys[export_i]
           schedule == TeacherSchedule(teachers[teacher], days, time_slots)
       IN  \E ok \in BOOLEAN :
             IF ok
             THEN /\ teacher_timetable' =
                         [t \in DOMAIN teacher_timetable \cup {teacher} |->
                             IF t = teacher THEN from_dict(schedule, days)
                             ELSE teacher_timetable[t]]
                  /\ generated_files' = Append(generated_files, <<"Teacher", teacher>>)
                  /\ export_i' = export_i + 1
                  /\ UNCHANGED <<pc, result, lastCall, ioFault>>
             ELSE /\ Raise
                  /\ UNCHANGED <<teacher_timetable, generated_files, export_i>>
    /\ UNCHANGED <<registry, timetable_cache, params, time_slots, days, classes, k,
                   timetable, available_slots, activity_slots, calls>>

\* line 223: return "Generation Complete", generated_files
Finish ==
    /\ pc = "export"
    /\ export_i > Len(teacher_keys)
    /\ Return(CompleteMsg, generated_files)
    /\ UNCHANGED <<registry, caches, params, locals, ioFault, calls>>

Next ==
    \/ \E name \in Names, text \in SubjectTexts, grades \in GradeChoices :
          AddTeacher(name, text, grades)
    \/ \E p \in ParamChoices : GenStart(p)
    \/ Setup
    \/ ActivityStep
    \/ CoreStep
    \/ StoreClass
    \/ ExportTeacher
    \/ Finish

Spec == Init /\ [][Next]_vars

----------------------------------------------------------------------------
(* Vocabulary of the properties. *)

\* the step is the call generate_timetable(p): the only steps that leave a
\* state between calls are the two handlers, and add_teacher returns in the
\* same step with its own mark and leaves params alone
GenCall(p) ==
    /\ pc = "idle"
    /\ params' = p
    /\ calls' = calls + 1
    /\ (pc' = "setup" \/ lastCall' = "generate_timetable")
    /\ ~(pc' = "idle" /\ lastCall' = "add_teacher")

\* generate_timetable has just returned
Returned == pc = "idle" /\ lastCall = "generate_timetable"

\* generate_timetable has just returned the success status
Succeeded == Returned /\ result.status = CompleteMsg

\* the cell text is f"{subject} ({teacher})" for this teacher
NamesTeacher(cell, teacher) == Len(cell) = 4 /\ cell[2] = "(" /\ cell[3] = teacher

\* the cell text is f"{subject} ({teacher})"
IsLabel(cell) == Len(cell) = 4 /\ cell[2] = "(" /\ cell[4] = ")" /\ cell[1] # "" /\ cell[3] # ""

\* the hours of a parameter set, read off the labels
StartHour(p) == parse_time(p.start_time)
EndHour(p) == parse_time(p.end_time)

\* the parameter set passes the time validation
TimeValid(p) == EndHour(p) > StartHour(p) /\ EndHour(p) - StartHour(p) >= p.periods_per_day

\* the class-sections of a parameter set: the grades x the first sections
ClassSections(p) ==
    {ClassName(i, p.selected_sections[j]) :
        i \in 1..NumGrades, j \in 1..Min(SectionLimit, Len(p.selected_sections))}

----------------------------------------------------------------------------
(* C1: no double-booking.  For every registered teacher and every (slot,   *)
(* day), at most one cached class grid names the teacher in that cell.     *)

C1_NoDoubleBooking ==
    \A t \in DOMAIN teachers :
      \A c1 \in DOMAIN timetable_cache, c2 \in DOMAIN timetable_cache :
        \A x \in DOMAIN timetable_cache[c1].at \cap DOMAIN timetable_cache[c2].at :
            (/\ NamesTeacher(timetable_cache[c1].at[x], t)
             /\ NamesTeacher(timetable_cache[c2].at[x], t)) => c1 = c2

\* a successful run in which a teacher is named in a cell of one class and
\* another class has a class period in the same cell
C1_Witness ==
    /\ Succeeded
    /\ \E t \in DOMAIN teachers :
         \E c1 \in DOMAIN timetable_cache, c2 \in DOMAIN timetable_cache :
           \E x \in DOMAIN timetable_cache[c1].at \cap DOMAIN timetable_cache[c2].at :
              /\ c1 # c2
              /\ NamesTeacher(timetable_cache[c1].at[x], t)
              /\ IsLabel(timetable_cache[c2].at[x])

----------------------------------------------------------------------------
(* C2: a parameter set that passes the time validation and gives           *)
(* ExpectedClasses class-sections (48 in the source) makes                 *)
(* generate_timetable return the success status, with one cached grid per  *)
(* class-section and one per registered teacher, when no write raised.     *)

----------------------------------------------------------------------------
(* C3: the cells of the class grids of a successful run.                   *)

\* Saturday under "Half Day", a slot after the first half that is not the lunch slot
HalfDayOff(p, ts, slot, day) ==
    /\ p.saturday_option = "Half Day"
    /\ day = "Saturday"
    /\ slot \notin Range(Take(ts, Len(ts) \div 2))
    /\ slot # p.lunch_time

\* C3 as stated: after a successful run every cell of every class grid is
\* non-empty: a subject+teacher label (the teacher possibly "TBD") or the
\* lunch label, in all three Saturday modes.
C3_EveryCellFilled ==
    Succeeded =>
        \A c \in DOMAIN timetable_cache :
          \A x \in DOMAIN timetable_cache[c].at :
              timetable_cache[c].at[x] = Lunch \/ IsLabel(timetable_cache[c].at[x])

\* C3 as amended: after a successful run every class grid has a cell for
\* every (slot, day) of the run; the cell is empty exactly when the day is
\* Saturday under "Half Day" and the slot is after the first floor(n/2) slots
\* and is not the lunch slot; every other cell is a subject+teacher label or
\* the lunch label.
C3_CellsFilledExceptHalfDay ==
    Succeeded =>
        \A c \in DOMAIN timetable_cache :
            /\ timetable_cache[c].index = Range(time_slots)
            /\ timetable_cache[c].columns = days
            /\ \A x \in DOMAIN timetable_cache[c].at :
                  IF HalfDayOff(params, time_slots, x[1], x[2])
                  THEN timetable_cache[c].at[x] = <<>>
                  ELSE \/ timetable_cache[c].at[x] = Lunch
                       \/ IsLabel(timetable_cache[c].at[x])

\* a successful "Half Day" run whose grids have an empty Saturday cell next
\* to a filled one
C3_Witness ==
    /\ Succeeded
    /\ params.saturday_option = "Half Day"
    /\ \E c \in DOMAIN timetable_cache :
         \E x \in DOMAIN timetable_cache[c].at, y \in DOMAIN timetable_cache[c].at :
            /\ x[2] = "Saturday" /\ timetable_cache[c].at[x] = <<>>
            /\ y[2] = "Saturday" /\ IsLabel(timetable_cache[c].at[y])

----------------------------------------------------------------------------
(* C4: after a successful run, if the lunch slot is in the slot list, the  *)
(* lunch-slot cell of every class grid is the lunch label on every day and *)
(* no teacher's schedule is booked at the lunch slot; otherwise no cell of *)
(* any class grid is the lunch label.                                      *)

C4_LunchSlot ==
    Succeeded =>
        IF params.lunch_time \in Range(time_slots)
        THEN /\ \A c \in DOMAIN timetable_cache : \A day \in Range(days) :
                   timetable_cache[c].at[<<params.lunch_time, day>>] = Lunch
             /\ \A t \in DOMAIN teachers : \A day \in Range(days) :
                   teachers[t].schedule[day][params.lunch_time] = <<>>
        ELSE \A c \in DOMAIN timetable_cache : \A x \in DOMAIN timetable_cache[c].at :
                   timetable_cache[c].at[x] # Lunch

\* a successful run with the lunch slot in the slot list, on Saturday too,
\* and a teacher who is booked in another slot
C4_Witness ==
    /\ Succeeded
    /\ params.lunch_time \in Range(time_slots)
    /\ "Saturday" \in Range(days)
    /\ \E t \in DOMAIN teachers : \E day \in Range(days), slot \in Range(time_slots) :
          teachers[t].schedule[day][slot] # <<>>

----------------------------------------------------------------------------
(* C5: after a successful run each registered teacher's grid has the shape *)
(* of a class grid (rows = the run's time-slots, columns = the run's days) *)
(* and its cell at (slot, day) is the class label of the teacher's         *)
(* schedule at (day, slot), or "Free" when that schedule cell is empty.    *)

C5_TeacherGrid ==
    Succeeded =>
        \A t \in DOMAIN teachers :
            /\ t \in DOMAIN teacher_timetable
            /\ teacher_timetable[t].columns = days
            /\ teacher_timetable[t].index = Range(time_slots)
            /\ \A slot \in Range(time_slots), day \in Range(days) :
                  teacher_timetable[t].at[<<slot, day>>] =
                      IF teachers[t].schedule[day][slot] = <<>> THEN Free
                      ELSE teachers[t].schedule[day][slot]

----------------------------------------------------------------------------
(* C6: when the parsed end hour is at most the parsed start hour, or the   *)
(* span of hours is smaller than the period count, generate_timetable      *)
(* returns the failure status of that check with an empty artifact list,   *)
(* builds no slots and leaves both caches as they were; otherwise the call *)
(* does not return a time-validation failure.                              *)

\* the call returns this time-validation failure and generates nothing
TimeFailure(status) ==
    /\ pc' = "idle"
    /\ lastCall' = "generate_timetable"
    /\ result' = [status |-> status, files |-> <<>>]
    /\ time_slots' = <<>>
    /\ timetable_cache' = timetable_cache
    /\ teacher_timetable' = teacher_timetable

C6_TimeValidation ==
    [][\A p \in ParamChoices :
         GenCall(p) =>
            IF EndHour(p) <= StartHour(p)
            THEN TimeFailure(EndBeforeStartMsg)
            ELSE IF EndHour(p) - StartHour(p) < p.periods_per_day
            THEN TimeFailure(NotEnoughHoursMsg)
            ELSE ~(pc' = "idle" /\ result'.status \in {EndBeforeStartMsg, NotEnoughHoursMsg})]_vars

\* a call that failed for lack of hours, after a run that had cached grids
C6_Witness ==
    /\ Returned
    /\ result = [status |-> NotEnoughHoursMsg, files |-> <<>>]
    /\ EndHour(params) > StartHour(params)
    /\ EndHour(params) - StartHour(params) < params.periods_per_day
    /\ time_slots = <<>>
    /\ DOMAIN timetable_cache # {}

----------------------------------------------------------------------------
(* C7: the selected sections are truncated to the first SectionLimit (4 in *)
(* the source); with fewer selected, the class count is not                *)
(* ExpectedClasses (48) and the call returns the failure status with an    *)
(* empty artifact list and leaves both caches as they were; otherwise the  *)
(* run goes on with the classes of the first SectionLimit sections, and    *)
(* only those get grids.                                                   *)

C7_SectionValidation ==
    /\ [][\A p \in ParamChoices :
            (GenCall(p) /\ TimeValid(p)) =>
               IF Len(p.selected_sections) < SectionLimit
               THEN /\ NumGrades * Len(p.selected_sections) # ExpectedClasses
                    /\ pc' = "idle"
                    /\ lastCall' = "generate_timetable"
                    /\ result' = [status |-> ExpectedClassesMsg, files |-> <<>>]
                    /\ timetable_cache' = timetable_cache
                    /\ teacher_timetable' = teacher_timetable
               ELSE /\ pc' = "setup"
                    /\ Len(classes') = ExpectedClasses
                    /\ Range(classes') = ClassSections(p)]_vars
    /\ [](Succeeded => DOMAIN timetable_cache = ClassSections(params))

\* a call that failed for its section count, after a run that had cached grids
C7_Witness ==
    /\ Returned
    /\ result = [status |-> ExpectedClassesMsg, files |-> <<>>]
    /\ Len(params.selected_sections) < SectionLimit
    /\ DOMAIN timetable_cache # {}

----------------------------------------------------------------------------
(* C8: when a generation run fails unexpectedly after validation, the call *)
(* returns the generic error status with an empty artifact list, and on    *)
(* return neither cache contains a grid.                                   *)

C8_NoPartialGrids ==
    (Returned /\ result.status = ErrorMsg) =>
        /\ result.files = <<>>
        /\ DOMAIN timetable_cache = {}
        /\ DOMAIN teacher_timetable = {}

----------------------------------------------------------------------------
(* C9: a run caches the grids of its own class-sections only: while the    *)
(* classes are processed the class-grid cache holds the classes done so    *)
(* far, and from the end of the class loop to the successful return it     *)
(* holds exactly the classes of this run, which are also the class files   *)
(* of the returned list; no class of an earlier run remains.               *)

C9_NoStaleClass ==
    /\ pc \in {"setup", "fill"} =>
          DOMAIN timetable_cache = Range(SubSeq(classes, 1, k - 1))
    /\ (pc = "export" \/ Succeeded) => DOMAIN timetable_cache = Range(classes)
    /\ Succeeded => {f \in Range(result.files) : f[1] = "Grade"} = Range(classes)

\* a run that follows a successful run (whose returned list is still the
\* last result) and has written all its grids, while the earlier run had a
\* class that this run does not have
C9_Witness ==
    /\ pc = "export"
    /\ export_i > Len(teacher_keys)
    /\ lastCall = "generate_timetable"
    /\ result.status = CompleteMsg
    /\ \E f \in Range(result.files) : f[1] = "Grade" /\ f \notin Range(classes)
    /\ DOMAIN timetable_cache = Range(classes)

----------------------------------------------------------------------------
(* C10: add_teacher with an empty name, an empty set of subjects (also a   *)
(* subject text with no non-blank subject after splitting on commas and    *)
(* trimming) or an empty grade-band list returns the rejection message and *)
(* leaves the teacher collection and the Qualification Index unchanged.    *)

C10_RejectsMissingFields ==
    [][\A name \in Names, text \in SubjectTexts, grades \in GradeChoices :
         (/\ AddTeacher(name, text, grades)
          /\ (name = "" \/ ParseSubjects(text) = {} \/ grades = <<>>))
         => /\ result'.status = RejectedMsg
            /\ teachers' = teachers
            /\ subject_grade_teachers' = subject_grade_teachers]_vars

----------------------------------------------------------------------------
(* The registry alone: sequences of add_teacher calls, with registrations  *)
(* repeated under the same name with other subjects or other grade-bands.  *)

RegistryNames == {"", "T1", "T2"}

RegistryTexts == {<<"English", ",", " ", "Sports">>, <<"Hindi">>}

RegistryGrades == {<<"1-5">>, <<"6-8">>, <<"1-5", "6-8">>}

NextRegistry ==
    \E name \in RegistryNames, text \in RegistryTexts, grades \in RegistryGrades :
        AddTeacher(name, text, grades)

SpecRegistry == Init /\ [][NextRegistry]_vars

\* the teacher name is in the list of the Qualification Index for (s, g)
Listed(name, s, g) ==
    /\ <<s, g>> \in DOMAIN subject_grade_teachers
    /\ name \in Range(subject_grade_teachers[<<s, g>>])

\* the subjects that occur in the registry
KnownSubjects ==
    UNION {teachers[n].subjects : n \in DOMAIN teachers}
        \cup {key[1] : key \in DOMAIN subject_grade_teachers}

----------------------------------------------------------------------------
(* C11: after any sequence of add_teacher calls, also with a registration  *)
(* repeated under the same name, a teacher name is in the Qualification    *)
(* Index list for (s, g) if and only if the teacher's current subject set  *)
(* contains s and the teacher's current grade-band set contains g.         *)

C11_IndexMatchesTeachers ==
    \A n \in DOMAIN teachers : \A s \in KnownSubjects, g \in Range(GRADES) :
        Listed(n, s, g) <=> (s \in teachers[n].subjects /\ g \in teachers[n].grades)

----------------------------------------------------------------------------
(* C12: during and after a run, under "Half Day" classes and teachers are  *)
(* assigned on Saturday only in the first floor(n/2) slots of the n-slot   *)
(* list (nothing with n = 1); under "Full Day" Saturday uses the full slot *)
(* list; under "Holiday" the days have no Saturday and no grid or teacher  *)
(* schedule has a Saturday entry; Monday to Friday use the full slot list. *)

\* a run is under way or has just returned the success status
InRun == pc # "idle" \/ Succeeded

\* the slots of the day that a run of these parameters assigns in
DaySlots(p, ts, day) ==
    IF day = "Saturday" /\ p.saturday_option = "Half Day"
    THEN Range(Take(ts, Len(ts) \div 2))
    ELSE Range(ts)

C12_SaturdayModes ==
    InRun =>
        /\ Range(WEEKDAYS) \subseteq Range(days)
        /\ "Saturday" \in Range(days) <=> params.saturday_option # "Holiday"
        /\ \A c \in DOMAIN timetable_cache :
              /\ timetable_cache[c].columns = days
              /\ \A x \in DOMAIN timetable_cache[c].at :
                    /\ x[2] \in Range(days)
                    /\ IsLabel(timetable_cache[c].at[x])
                          <=> (/\ x[1] \in DaySlots(params, time_slots, x[2])
                               /\ x[1] # params.lunch_time)
        /\ \A t \in DOMAIN teachers :
              /\ DOMAIN teachers[t].schedule = Range(days)
              /\ \A day \in Range(days), slot \in Range(time_slots) :
                    teachers[t].schedule[day][slot] # <<>>
                        => slot \in DaySlots(params, time_slots, day)
        /\ \A t \in DOMAIN teacher_timetable : teacher_timetable[t].columns = days

\* a successful "Half Day" run with two slots in which a teacher is booked
\* on Saturday and the second Saturday cell of a class grid is not assigned
C12_Witness ==
    /\ Succeeded
    /\ params.saturday_option = "Half Day"
    /\ Len(time_slots) = 2
    /\ \E t \in DOMAIN teachers : teachers[t].schedule["Saturday"][time_slots[1]] # <<>>
    /\ \E c \in DOMAIN timetable_cache :
          ~IsLabel(timetable_cache[c].at[<<time_slots[2], "Saturday">>])

----------------------------------------------------------------------------
(* The time settings alone: the first generate_timetable call of a        *)
(* manager, with every start label and end label of the enumeration and    *)
(* every period count of the slider; the single section makes the call     *)
(* return after the slot list and the class list are built.                *)

\* gr.Slider(minimum=1, maximum=10, ...)
PeriodChoices == 1..Len(AVAILABLE_SLOTS)

TimeChoices ==
    {Params(<<"A">>, <<>>, 1, start, end, periods, "12:00-12:50 PM", "Holiday") :
        start \in Range(AVAILABLE_SLOTS), end \in Range(AVAILABLE_SLOTS),
        periods \in PeriodChoices}

NextSlots == \E p \in TimeChoices : calls = 0 /\ GenStart(p)

SpecSlots == Init /\ [][NextSlots]_vars

----------------------------------------------------------------------------
(* C13: for every start label, end label and period count that pass the    *)
(* time validation (labels of the hourly enumeration 7 AM..4 PM, period    *)
(* count 1..10) the slot list has exactly periodCount entries, its first   *)
(* entry is the start label and entry i is the label of the hour i after   *)
(* the start hour, i.e. the i-th label after the start label in the        *)
(* enumeration; start 8 AM, end 3 PM, 7 periods gives the 7 slots from     *)
(* "8:00-8:50 AM" to "2:00-2:50 PM".                                       *)

\* the position of a label in the hourly enumeration
PositionOf(label) == CHOOSE i \in DOMAIN AVAILABLE_SLOTS : AVAILABLE_SLOTS[i] = label

C13_SlotList ==
    (params # NoParams /\ TimeValid(params)) =>
        /\ Len(time_slots) = params.periods_per_day
        /\ time_slots[1] = params.start_time
        /\ \A i \in 1..Len(time_slots) :
              /\ PositionOf(params.start_time) + i - 1 \in DOMAIN AVAILABLE_SLOTS
              /\ time_slots[i] = AVAILABLE_SLOTS[PositionOf(params.start_time) + i - 1]
        /\ (/\ params.start_time = "8:00-8:50 AM"
            /\ params.end_time = "3:00-3:50 PM"
            /\ params.periods_per_day = 7)
           => time_slots = <<"8:00-8:50 AM", "9:00-9:50 AM", "10:00-10:50 AM",
                             "11:00-11:50 AM", "12:00-12:50 PM", "1:00-1:50 PM",
                             "2:00-2:50 PM">>

\* the call with start 8 AM, end 3 PM and 7 periods has built its slot list
C13_Witness ==
    /\ Returned
    /\ params.start_time = "8:00-8:50 AM"
    /\ params.end_time = "3:00-3:50 PM"
    /\ params.periods_per_day = 7
    /\ Len(time_slots) = 7
    /\ time_slots[5] = "12:00-12:50 PM"
    /\ time_slots[7] = "2:00-2:50 PM"

----------------------------------------------------------------------------
(* Runs with teachers of several grade-bands: the teachers are registered  *)
(* for "1-5" or for "6-8", the runs have three selected sections, without  *)
(* and with an activity subject.                                           *)

BandNames == {"T1", "T2"}

BandTexts == {<<"English", ",", " ", "Sports">>}

BandGrades == {<<"1-5">>, <<"6-8">>}

BandParams ==
    { Params(<<"A", "B", "C">>, <<>>, 1, "11:00-11:50 AM", "1:00-1:50 PM", 1, "4:00-4:50 PM", "Holiday"),
      Params(<<"A", "B", "C">>, <<"Sports">>, 1, "11:00-11:50 AM", "1:00-1:50 PM", 1, "4:00-4:50 PM", "Holiday") }

NextBands ==
    \/ \E name \in BandNames, text \in BandTexts, grades \in BandGrades :
          AddTeacher(name, text, grades)
    \/ \E p \in BandParams : GenStart(p)
    \/ Setup
    \/ ActivityStep
    \/ CoreStep
    \/ StoreClass
    \/ ExportTeacher
    \/ Finish

SpecBands == Init /\ [][NextBands]_vars

----------------------------------------------------------------------------
(* C14: get_grade_key maps every input to exactly one grade-band: "1".."5" *)
(* to "1-5", "6".."8" to "6-8", "9".."10" to "9-10", "11".."12" and any    *)
(* other token to "11-12 Science"; consequently every class-section of a   *)
(* run is filled from the core-subject list and the Qualification Index    *)
(* entries of the band of its numeric grade.                               *)

\* grade tokens: the numeric grades, the band labels, other texts
GradeTokens ==
    {"1", "2", "3", "4", "5", "6", "7", "8", "9", "10", "11", "12"}
        \cup Range(GRADES) \cup {"", "0", "13", "A", "Grade"}

\* the band of a token as the claim states it
BandOf(token) ==
    IF token \in {"1", "2", "3", "4", "5"} THEN "1-5"
    ELSE IF token \in {"6", "7", "8"} THEN "6-8"
    ELSE IF token \in {"9", "10"} THEN "9-10"
    ELSE "11-12 Science"

\* a cell of the grid of a class of this grade is filled from the band
FilledFromBand(cell, grade) ==
    IsLabel(cell) =>
        /\ \/ cell[1] \in Range(NCERT_SUBJECTS[BandOf(grade)])
           \/ cell[1] \in Range(params.activity_subjects)
        /\ cell[3] = "TBD" \/ Listed(cell[3], cell[1], BandOf(grade))

----------------------------------------------------------------------------
(* Vocabulary of the assignment steps. *)

\* a step of the class loop that assigns the cell (time, day) of the grid
Assigns(time, day) ==
    /\ pc = "fill"
    /\ time \in DOMAIN timetable
    /\ day \in DOMAIN timetable[time]
    /\ timetable' # timetable
    /\ timetable'[time][day] # timetable[time][day]

\* the teachers listed in the Qualification Index for (s, g)
ListedFor(s, g) ==
    IF <<s, g>> \in DOMAIN subject_grade_teachers
    THEN Range(subject_grade_teachers[<<s, g>>])
    ELSE {}

\* the teacher's schedule has a class at (day, time)
Booked(t, day, time) == teachers[t].schedule[day][time] # <<>>

----------------------------------------------------------------------------
(* C15: when no teacher listed in the Qualification Index for (subject,    *)
(* grade-band) is free at (day, slot), the assigned cell's occupant is the *)
(* placeholder "TBD" and the assignment changes no teacher's schedule;     *)
(* conversely a cell gets the placeholder only when every teacher listed   *)
(* for that (subject, grade-band) is already booked at that (day, slot).   *)

C15_Placeholder ==
    [][\A time \in Range(time_slots), day \in Range(days) :
         Assigns(time, day) =>
            LET cell == timetable'[time][day]
                nobody_free == \A t \in ListedFor(cell[1], BandOf(classes[k][2])) :
                                  Booked(t, day, time)
            IN  /\ IsLabel(cell)
                /\ nobody_free => (cell[3] = "TBD" /\ teachers' = teachers)
                /\ cell[3] = "TBD" => nobody_free]_vars

\* a class cell holds the placeholder for a subject whose listed teacher is
\* booked at that (day, slot) by another class
C15_Witness ==
    /\ Succeeded
    /\ \E c \in DOMAIN timetable_cache : \E x \in DOMAIN timetable_cache[c].at :
          LET cell == timetable_cache[c].at[x]
          IN  /\ IsLabel(cell)
              /\ cell[3] = "TBD"
              /\ \E t \in ListedFor(cell[1], BandOf(c[2])) :
                    /\ Booked(t, x[2], x[1])
                    /\ teachers[t].schedule[x[2]][x[1]] # c

----------------------------------------------------------------------------
(* C16: whenever a class cell at (slot, day) is filled with a named        *)
(* teacher T for subject s, T was listed in the Qualification Index for    *)
(* (s, the class's grade-band) and T's schedule at (day, slot) was free    *)
(* immediately before the assignment; afterwards T's schedule at (day,     *)
(* slot) holds that class's label, the cell reads "{s} ({T})", and no      *)
(* other teacher's schedule changed.                                       *)

C16_Booking ==
    [][\A time \in Range(time_slots), day \in Range(days) :
         (Assigns(time, day) /\ timetable'[time][day][3] # "TBD") =>
            LET cell == timetable'[time][day]
                s == cell[1]
                T == cell[3]
            IN  /\ T \in DOMAIN teachers
                /\ T \in ListedFor(s, BandOf(classes[k][2]))
                /\ ~Booked(T, day, time)
                /\ teachers'[T].schedule[day][time] = classes[k]
                /\ cell = <<s, "(", T, ")">>
                /\ DOMAIN teachers' = DOMAIN teachers
                /\ \A u \in DOMAIN teachers \ {T} : teachers'[u] = teachers[u]]_vars

\* in the class loop a cell of the grid names a teacher whose schedule holds
\* the class at that (day, slot), while another teacher is booked elsewhere
C16_Witness ==
    /\ pc = "fill"
    /\ \E t \in DOMAIN teachers, u \in DOMAIN teachers :
          /\ t # u
          /\ \E time \in Range(time_slots), day \in Range(days) :
                /\ NamesTeacher(timetable[time][day], t)
                /\ teachers[t].schedule[day][time] = classes[k]
                /\ ~Booked(u, day, time)
          /\ \E time \in Range(time_slots), day \in Range(days) : Booked(u, day, time)

----------------------------------------------------------------------------
(* C17: at the start of every generation run that passes the time          *)
(* validation, before any assignment, every registered teacher's schedule  *)
(* is all-free with keys exactly (days x slots) of that run: bookings of   *)
(* an earlier run are gone, and a teacher registered after an earlier run  *)
(* is initialized like all others.  The keys stay those of the run while   *)
(* the run goes on.                                                        *)

\* the schedule is keyed by exactly these days and slots
KeyedBy(t, ds, ts) ==
    /\ DOMAIN teachers[t].schedule = Range(ds)
    /\ \A day \in Range(ds) : DOMAIN teachers[t].schedule[day] = Range(ts)

\* the schedule is keyed by exactly these days and slots and has no booking
AllFree(t, ds, ts) ==
    /\ KeyedBy(t, ds, ts)
    /\ \A day \in Range(ds), slot \in Range(ts) : teachers[t].schedule[day][slot] = <<>>

\* the call passed the time validation and has made no assignment yet: it
\* is about to fill its first class, or it has returned the class-count status
RunStarted ==
    \/ pc = "setup" /\ k = 1
    \/ Returned /\ result.status = ExpectedClassesMsg

C17_ScheduleReset ==
    /\ RunStarted =>
          /\ TimeValid(params)
          /\ time_slots # <<>>
          /\ \A t \in DOMAIN teachers : AllFree(t, days, time_slots)
    /\ pc # "idle" => \A t \in DOMAIN teachers : KeyedBy(t, days, time_slots)

\* the start of a run that follows a successful run: a teacher whose grid
\* the earlier run exported is all-free on the days and slots of this run
C17_Witness ==
    /\ pc = "setup" /\ k = 1
    /\ lastCall = "generate_timetable"
    /\ result.status = CompleteMsg
    /\ \E t \in DOMAIN teachers :
          /\ <<"Teacher", t>> \in Range(result.files)
          /\ AllFree(t, days, time_slots)

----------------------------------------------------------------------------
(* C18: when at least one activity subject is selected and the target      *)
(* count is positive, each class grid of the run contains exactly          *)
(* min(target count, number of (day, slot) pairs available after the lunch *)
(* removal and the Saturday halving) activity cells, on distinct (day,     *)
(* slot) pairs, each holding one of the selected activity subjects, none   *)
(* overwritten by the core-subject fill; when no activity subject is       *)
(* selected no cell holds an activity subject.                             *)

\* the (slot, day) pairs a class of the run can be assigned in
AvailablePairs ==
    {<<slot, day>> \in Range(time_slots) \X Range(days) :
        slot \in DaySlots(params, time_slots, day) /\ slot # params.lunch_time}

\* the cells of a grid that hold one of these subjects
CellsOf(grid, subjects) ==
    {x \in DOMAIN grid.at : IsLabel(grid.at[x]) /\ grid.at[x][1] \in subjects}

C18_ActivityCells ==
    InRun =>
        \A c \in DOMAIN timetable_cache :
            /\ CellsOf(timetable_cache[c], Range(ACTIVITY_SUBJECTS))
                  = CellsOf(timetable_cache[c], Range(params.activity_subjects))
            /\ CellsOf(timetable_cache[c], Range(ACTIVITY_SUBJECTS)) \subseteq AvailablePairs
            /\ Cardinality(CellsOf(timetable_cache[c], Range(params.activity_subjects)))
                  = IF params.activity_subjects # <<>> /\ params.activity_count > 0
                    THEN Min(params.activity_count, Cardinality(AvailablePairs))
                    ELSE 0

\* a successful run with target count 2 and three available pairs: a class
\* grid has two activity cells and a core-subject cell
C18_Witness ==
    /\ Succeeded
    /\ params.activity_count = 2
    /\ Cardinality(AvailablePairs) = 3
    /\ \E c \in DOMAIN timetable_cache :
          /\ Cardinality(CellsOf(timetable_cache[c], {"Sports"})) = 2
          /\ CellsOf(timetable_cache[c], {"English", "Hindi"}) # {}

----------------------------------------------------------------------------
(* C19: after a successful run, for every teacher T, class-section C and   *)
(* (day, slot), T's schedule at (day, slot) holds C's label if and only if *)
(* the cached grid of C names T in its cell at (slot, day), also when the  *)
(* selected sections contain a repeated letter.                            *)

\* the schedule of T at (day, slot) and the grid of C agree
Agree(T, C, day, slot) ==
    teachers[T].schedule[day][slot] = C
        <=> (/\ C \in DOMAIN timetable_cache
             /\ NamesTeacher(timetable_cache[C].at[<<slot, day>>], T))

C19_OutputsAgree ==
    Succeeded =>
        \A T \in DOMAIN teachers, C \in Range(classes) :
          \A day \in Range(days), slot \in Range(time_slots) : Agree(T, C, day, slot)

----------------------------------------------------------------------------
(* C20: a generate_timetable call that fails validation (bad time range,   *)
(* insufficient hours, or a section selection that does not give the       *)
(* expected number of class-sections) leaves the whole manager state       *)
(* unchanged: the class-grid cache, the teacher-grid cache, the            *)
(* Qualification Index and every teacher's schedule are the same as before *)
(* the call.                                                               *)

\* the call returns one of the three validation statuses
FailsValidation ==
    /\ pc' = "idle"
    /\ result'.status \in {EndBeforeStartMsg, NotEnoughHoursMsg, ExpectedClassesMsg}

C20_FailedCallFrame ==
    [][\A p \in ParamChoices :
         (GenCall(p) /\ FailsValidation) =>
            /\ timetable_cache' = timetable_cache
            /\ teacher_timetable' = teacher_timetable
            /\ subject_grade_teachers' = subject_grade_teachers
            /\ teacher_keys' = teacher_keys
            /\ teachers' = teachers]_vars

====
